---- MODULE Spec2Model ----
(***************************************************************************)
(* cargo-expand (src/main.rs): the subprocess pipeline orchestrator.       *)
(*                                                                         *)
(* One invocation of the program is a sequential process whose position    *)
(* is pc.  Child processes live in the table procs; every spawn, wait,     *)
(* temporary-directory operation and error line is appended to log with    *)
(* the position it happened at, so that orderings are state predicates.   *)
(* Option<T> is a sequence of length at most one: None == <<>>,            *)
(* Some(x) == <<x>>.  Argument tokens and input lines are strings (valid   *)
(* Unicode text).                                                          *)
(***************************************************************************)
EXTENDS Integers, Sequences, FiniteSets, TLC

VARIABLES
    argv,        \* env::args_os() of the running invocation
    env,         \* environment variables: name -> Option<value>
    stdoutTty,   \* isatty::stdout_isatty()
    stderrTty,   \* isatty::stderr_isatty()
    stdin,       \* the lines on the standard input of invocation 0
    debugAssertions, \* cfg!(debug_assertions) of the build that is running
    pc,          \* position of the running invocation
    frames,      \* suspended parents of the running invocation (re-exec)
    maybeNightly,    \* cargo_expand_or_run_nightly: maybe_nightly
    whichRustfmt,    \* cargo_expand: which_rustfmt
    whichPygmentize, \* cargo_expand: which_pygmentize
    outdir,      \* cargo_expand: outdir ("none", "created", "deleted")
    cmd,         \* cargo_expand: the Command being built
    waits,       \* cargo_expand: the live Wait values, by binding
    procs,       \* every child process spawned so far
    log,         \* events in program order
    result,      \* io::Result<i32> on its way to main
    exitCode,    \* Option<code>: process::exit of invocation 0
    synth,       \* last value returned by wrap_args
    stderrOut,   \* lines written by filter_err
    unread,      \* lines of stdin that filter_err has not read
    faults       \* children that ended abnormally or could not be waited on

vars == <<argv, env, stdoutTty, stderrTty, stdin, debugAssertions, pc, frames, maybeNightly, whichRustfmt,
          whichPygmentize, outdir, cmd, waits, procs, log, result,
          exitCode, synth, stderrOut, unread, faults>>

None == <<>>
Some(x) == <<x>>
IsSome(o) == Len(o) = 1
IsNone(o) == Len(o) = 0
Unwrap(o) == o[1]

(***************************************************************************)
(* Bounds of the model.                                                    *)
(***************************************************************************)
MaxUserArgs == 3   \* user tokens after the subcommand, argument synthesis
MaxPipeArgs == 1   \* user tokens after the subcommand, whole-program runs
MaxLevel == 2      \* cap on the depth of a chain of re-execs
MaxLines == 2      \* lines on the input of a Diagnostic Filter
MaxFaults == 1     \* children of one chain that end abnormally (a status
                   \* other than 0, or a failing wait)

(***************************************************************************)
(* Text helpers: str::starts_with, str::contains, str::to_uppercase.       *)
(***************************************************************************)
StartsWith(s, prefix) ==
    Len(s) >= Len(prefix) /\ SubSeq(s, 1, Len(prefix)) = prefix

Contains(s, pat) ==
    \E i \in 1..(Len(s) - Len(pat) + 1) : SubSeq(s, i, i + Len(pat) - 1) = pat

Lower == "abcdefghijklmnopqrstuvwxyz"
Upper == "ABCDEFGHIJKLMNOPQRSTUVWXYZ"

UpperChar(c) ==
    IF \E i \in 1..26 : SubSeq(Lower, i, i) = c
    THEN LET i == CHOOSE j \in 1..26 : SubSeq(Lower, j, j) = c
         IN SubSeq(Upper, i, i)
    ELSE c

RECURSIVE ToUppercase(_)
ToUppercase(s) ==
    IF Len(s) = 0 THEN ""
    ELSE UpperChar(SubSeq(s, 1, 1)) \o ToUppercase(SubSeq(s, 2, Len(s)))

\* OsStr::to_str(..).unwrap_or(""): every token of the model is valid text.
ToStrOrEmpty(arg) == arg

(***************************************************************************)
(* wrap_args (main.rs:213-258).                                            *)
(***************************************************************************)
OutfilePath == "/tmp/cargo-expand/expanded"

\* WrapLoop with `ends_with_test |= ...`: the flag survives a later token
RECURSIVE WrapLoopSticky(_, _, _)
WrapLoopSticky(it, i, st) ==
    IF i > Len(it) THEN [st EXCEPT !.next = i]
    ELSE IF it[i] = "--" THEN [st EXCEPT !.next = i + 1]
    ELSE WrapLoopSticky(it, i + 1,
            [args |-> Append(st.args, it[i]),
             ends_with_test |-> st.ends_with_test \/ (it[i] = "--test"),
             ends_with_example |-> (it[i] = "--example"),
             has_color |-> st.has_color
                            \/ StartsWith(ToStrOrEmpty(it[i]), "--color"),
             next |-> i])

\* WrapLoop with `has_color = ...`: only the last token decides
RECURSIVE WrapLoopLastColor(_, _, _)
WrapLoopLastColor(it, i, st) ==
    IF i > Len(it) THEN [st EXCEPT !.next = i]
    ELSE IF it[i] = "--" THEN [st EXCEPT !.next = i + 1]
    ELSE WrapLoopLastColor(it, i + 1,
            [args |-> Append(st.args, it[i]),
             ends_with_test |-> (it[i] = "--test"),
             ends_with_example |-> (it[i] = "--example"),
             has_color |-> StartsWith(ToStrOrEmpty(it[i]), "--color"),
             next |-> i])

\* the `for arg in &mut it` loop; i is the next index of `it` to consume
RECURSIVE WrapLoop(_, _, _)
WrapLoop(it, i, st) ==
    IF i > Len(it) THEN [st EXCEPT !.next = i]
    ELSE IF it[i] = "--" THEN [st EXCEPT !.next = i + 1]
    ELSE WrapLoop(it, i + 1,
            [args |-> Append(st.args, it[i]),
             ends_with_test |-> (it[i] = "--test"),
             ends_with_example |-> (it[i] = "--example"),
             has_color |-> st.has_color
                            \/ StartsWith(ToStrOrEmpty(it[i]), "--color"),
             next |-> i])

\* wrap_args with the color flag pushed last, after the pretty-print request
wrap_args_color_last(it, outfile, stderr_isatty) ==
    LET st == WrapLoop(it, 3,
                  [args |-> <<"rustc">>, ends_with_test |-> FALSE,
                   ends_with_example |-> FALSE, has_color |-> FALSE,
                   next |-> 3])
        a1 == IF st.ends_with_test THEN Append(st.args, "test") ELSE st.args
        a2 == IF st.ends_with_example THEN Append(a1, "example") ELSE a1
        a4 == Append(a2, "--")
        a5 == IF IsSome(outfile) THEN a4 \o <<"-o", Unwrap(outfile)>> ELSE a4
        a6 == a5 \o <<"-Zunstable-options", "--pretty=expanded">>
        a7 == a6 \o SubSeq(it, st.next, Len(it))
    IN  IF ~st.has_color
        THEN Append(a7, "--color="
                        \o (IF stderr_isatty THEN "always" ELSE "never"))
        ELSE a7

\* wrap_args with the default target pushed after the color flag
wrap_args_target_after_color(it, outfile, stderr_isatty) ==
    LET st == WrapLoop(it, 3,
                  [args |-> <<"rustc">>, ends_with_test |-> FALSE,
                   ends_with_example |-> FALSE, has_color |-> FALSE,
                   next |-> 3])
        a1 == IF ~st.has_color
              THEN Append(st.args, "--color="
                              \o (IF stderr_isatty THEN "always" ELSE "never"))
              ELSE st.args
        a2 == IF st.ends_with_test THEN Append(a1, "test") ELSE a1
        a3 == IF st.ends_with_example THEN Append(a2, "example") ELSE a2
        a4 == Append(a3, "--")
        a5 == IF IsSome(outfile) THEN a4 \o <<"-o", Unwrap(outfile)>> ELSE a4
        a6 == a5 \o <<"-Zunstable-options", "--pretty=expanded">>
    IN a6 \o SubSeq(it, st.next, Len(it))

wrap_args(it, outfile, stderr_isatty) ==
    LET st == WrapLoop(it, 3,
                  [args |-> <<"rustc">>, ends_with_test |-> FALSE,
                   ends_with_example |-> FALSE, has_color |-> FALSE,
                   next |-> 3])
        a1 == IF st.ends_with_test THEN Append(st.args, "test") ELSE st.args
        a2 == IF st.ends_with_example THEN Append(a1, "example") ELSE a1
        a3 == IF ~st.has_color
              THEN Append(a2, "--color="
                              \o (IF stderr_isatty THEN "always" ELSE "never"))
              ELSE a2
        a4 == Append(a3, "--")
        a5 == IF IsSome(outfile) THEN a4 \o <<"-o", Unwrap(outfile)>> ELSE a4
        a6 == a5 \o <<"-Zunstable-options", "--pretty=expanded">>
    IN a6 \o SubSeq(it, st.next, Len(it))

(***************************************************************************)
(* color_never (main.rs:260-263).                                          *)
(***************************************************************************)
\* color_never without the single-token form
color_never_pair_only(args) ==
    \E i \in 1..(Len(args) - 1) : args[i] = "--color" /\ args[i+1] = "never"

color_never(args) ==
    \/ \E i \in 1..(Len(args) - 1) : args[i] = "--color" /\ args[i+1] = "never"
    \/ \E i \in 1..Len(args) : args[i] = "--color=never"

(***************************************************************************)
(* Environment and inputs.                                                 *)
(***************************************************************************)
NO_RUN_NIGHTLY == "CARGO_EXPAND_NO_RUN_NIGHTLY"
EnvNames == {"CARGO", NO_RUN_NIGHTLY, "RUSTFMT", "PYGMENTIZE"}

ArgTokens == {"--", "--test", "--example", "mytest", "--color", "never",
              "--color=never", "--color=always", "--features"}
PipeTokens == {"--color=never", "--help", "--filter-cargo", "--filter-rustfmt"}

RECURSIVE SeqsUpTo(_, _)
SeqsUpTo(S, n) ==
    IF n = 0 THEN {<<>>}
    ELSE LET shorter == SeqsUpTo(S, n - 1)
         IN shorter \cup {Append(s, t) : s \in {x \in shorter : Len(x) = n - 1},
                                         t \in S}

Argv(user) == <<"cargo-expand", "expand">> \o user

\* the user arguments of the whole-program runs
PipeArgs == SeqsUpTo(PipeTokens, MaxPipeArgs) \cup {<<"--color", "never">>}

\* what `cargo --version` can print before Command::output returns
VersionStdouts ==
    {[utf8 |-> FALSE, stdout |-> ""],
     [utf8 |-> TRUE, stdout |-> "cargo 1.30.0 (a1a4ad372)"],
     [utf8 |-> TRUE, stdout |-> "cargo 1.32.0-nightly (5e85ba14a)"],
     [utf8 |-> TRUE, stdout |-> "cargo 0.26.0 (41480f5cc)"]}

\* what a child can report to wait(): Some(code), or None when killed
ExitStatuses == {Some(0), Some(101), None}
Success(status) == status = Some(0)

(***************************************************************************)
(* The process table and the event log.                                    *)
(***************************************************************************)
Level == Len(frames)

\* where a child's standard input comes from
Inherit == [fd |-> "inherit", of |-> 0]
Null == [fd |-> "null", of |-> 0]
StdoutOf(pid) == [fd |-> "stdout", of |-> pid]
StderrOf(pid) == [fd |-> "stderr", of |-> pid]

Command(prog, args) == [prog |-> prog, args |-> args, stdin |-> Inherit]

Proc(c) ==
    [prog |-> c.prog, args |-> c.args, stdin |-> c.stdin, owner |-> Level,
     state |-> "running", status |-> None]

Event(ev, pid) == [ev |-> ev, pid |-> pid, owner |-> Level, at |-> pc]

\* Command::spawn returning Ok: the child gets the next process id
Spawned(st, c) ==
    [procs |-> Append(st.procs, Proc(c)),
     log |-> Append(st.log, Event("spawn", Len(st.procs) + 1))]

\* Command::spawn returning Err
SpawnFailed(st) == [st EXCEPT !.log = Append(@, Event("spawn_err", 0))]

\* Child::wait: o is its outcome, Ok(status) or Err
WaitOutcomes == {[err |-> FALSE, status |-> st] : st \in ExitStatuses}
                    \cup {[err |-> TRUE, status |-> None]}

Waited(st, pid, o) ==
    IF o.err
    THEN [procs |-> [st.procs EXCEPT ![pid].state = "wait_failed"],
          log |-> st.log \o <<Event("wait", pid), Event("wait_err", pid)>>]
    ELSE [procs |-> [st.procs EXCEPT ![pid].state = "reaped",
                                     ![pid].status = o.status],
          log |-> Append(st.log, Event("wait", pid))]

Now == [procs |-> procs, log |-> log]

\* a wait that failed, or one that reported anything but success
Abnormal(o) == o.err \/ o.status # Some(0)

(***************************************************************************)
(* Toolchain Prober (main.rs:51-70).                                       *)
(***************************************************************************)
cargo_binary == IF IsSome(env["CARGO"]) THEN Unwrap(env["CARGO"]) ELSE "cargo"

\* the outcomes of Command::output for `cargo --version`: Err because the
\* spawn failed, Err because the wait failed, or Ok with what the query
\* printed and the status it ended with
VersionOutputs ==
    {[spawn_err |-> TRUE, err |-> TRUE, status |-> None, utf8 |-> TRUE,
      stdout |-> ""],
     [spawn_err |-> FALSE, err |-> TRUE, status |-> None, utf8 |-> TRUE,
      stdout |-> ""]}
        \cup {[spawn_err |-> FALSE, err |-> FALSE, status |-> st,
                utf8 |-> v.utf8, stdout |-> v.stdout] :
                    st \in ExitStatuses, v \in VersionStdouts}

\* out: the outcome of Command::output for `cargo --version`
definitely_not_nightly(out) ==
    IF out.err THEN FALSE
    ELSE IF ~out.utf8 THEN FALSE
    ELSE StartsWith(out.stdout, "cargo 1") /\ ~Contains(out.stdout, "nightly")

\* Command::output spawns the query and waits for it, its input closed
VersionQuery(out) ==
    IF out.spawn_err THEN SpawnFailed(Now)
    ELSE LET q == [Command(cargo_binary, <<"--version">>) EXCEPT !.stdin = Null]
         IN Waited(Spawned(Now, q), Len(procs) + 1,
                   [err |-> out.err, status |-> out.status])

(***************************************************************************)
(* Capability Prober (main.rs:266-300).  probe is what the spawned probe   *)
(* does: the spawn fails ("spawn_err"), or the probe is spawned and its    *)
(* wait gives the outcome probe.wait.                                      *)
(***************************************************************************)
ProbeOutcomes ==
    {[spawn_err |-> TRUE, wait |-> [err |-> FALSE, status |-> None]]}
        \cup {[spawn_err |-> FALSE, wait |-> o] : o \in WaitOutcomes}

\* exit.success() of a probe that was spawned and waited for
ProbeSuccess(probe) ==
    ~probe.spawn_err /\ ~probe.wait.err /\ Success(probe.wait.status)

HasArg(args, a) == \E i \in 1..Len(args) : args[i] = a

\* which with the override looked at before the help flag
which_env_first(c, probe) ==
    IF IsSome(env[ToUppercase(c[1])])
    THEN LET w == Unwrap(env[ToUppercase(c[1])])
         IN IF w = "" THEN None ELSE Some(w)
    ELSE IF HasArg(argv, "--help") THEN None
    ELSE IF ProbeSuccess(probe) THEN Some(c[1])
    ELSE None

which(c, probe) ==
    IF HasArg(argv, "--help") THEN None
    ELSE IF IsSome(env[ToUppercase(c[1])])
    THEN LET w == Unwrap(env[ToUppercase(c[1])])
         IN IF w = "" THEN None ELSE Some(w)
    ELSE IF ProbeSuccess(probe) THEN Some(c[1])
    ELSE None

\* what that call of `which` adds to faults: a probe that was spawned and
\* did not end well, or could not be waited on
WhichFaults(c, probe) ==
    IF HasArg(argv, "--help") \/ IsSome(env[ToUppercase(c[1])]) THEN 0
    ELSE IF probe.spawn_err THEN 0
    ELSE IF Abnormal(probe.wait) THEN 1
    ELSE 0

\* the processes and events of that call of `which`
WhichEffects(c, probe) ==
    IF HasArg(argv, "--help") \/ IsSome(env[ToUppercase(c[1])]) THEN Now
    ELSE IF probe.spawn_err THEN SpawnFailed(Now)
    ELSE LET q == [Command(c[1], Tail(c)) EXCEPT !.stdin = Null]
         IN Waited(Spawned(Now, q), Len(procs) + 1, probe.wait)

(***************************************************************************)
(* Wait and PipeTo (main.rs:158-210).                                      *)
(***************************************************************************)
Range(f) == {f[i] : i \in DOMAIN f}

FaultsIn(w, oc) == Cardinality({p \in Range(w) : Abnormal(oc[p])})

\* the outcomes of waiting on the children of w that MaxFaults allows
DropOutcomes(w) ==
    {oc \in [Range(w) -> WaitOutcomes] :
        faults + FaultsIn(w, oc) <= MaxFaults}

\* Wait::drop: wait on the children in the order of the vector; a failed
\* wait prints a line and the loop goes on
RECURSIVE WaitDrop(_, _, _)
WaitDrop(w, oc, st) ==
    IF w = <<>> THEN st
    ELSE LET pid == Head(w)
             after == Waited(st, pid, oc[pid])
         IN WaitDrop(Tail(w), oc,
                IF oc[pid].err
                THEN [after EXCEPT !.log = Append(@, Event("eprint", pid))]
                ELSE after)

\* pipe_to hands the descriptor of the child's pipe to a Command with
\* Stdio::from_raw_fd (main.rs:191-193, 200-202) while the Child keeps
\* owning it, so it is closed twice.  The standard library of a build with
\* debug assertions aborts the process at the second close; without them
\* the second close fails and nothing else happens.
Abort(st) == [st EXCEPT !.log = Append(@, Event("abort", 0))]

\* a Wait is dropped: Wait::drop, then its children are dropped, after the
\* Command that read from them
WaitDropped(w, oc, st) ==
    IF debugAssertions /\ w # <<>>
    THEN [abort |-> TRUE, st |-> Abort(WaitDrop(w, oc, st))]
    ELSE [abort |-> FALSE, st |-> WaitDrop(w, oc, st)]

PipeOutcomes == {"ok", "spawn_err", "errcmd_spawn_err"}

\* pipe_to with the vector built as vec![child, spawn]
pipe_to_child_first(out, err, oc) ==
    LET child == Len(procs) + 1
        next == [Command(out[1], Tail(out)) EXCEPT !.stdin = StdoutOf(child)]
        errcmd == [Command(Unwrap(err)[1], Tail(Unwrap(err)))
                       EXCEPT !.stdin = StderrOf(child)]
        spawned == Spawned(Now, cmd)
    IN  IF oc = "spawn_err"
        THEN [ok |-> FALSE, abort |-> FALSE, st |-> SpawnFailed(Now),
              cmd |-> cmd, wait |-> <<>>]
        ELSE IF IsNone(err)
        THEN [ok |-> TRUE, abort |-> FALSE, st |-> spawned, cmd |-> next,
              wait |-> <<child>>]
        ELSE IF oc = "errcmd_spawn_err"
        THEN [ok |-> FALSE, abort |-> debugAssertions,
              st |-> IF debugAssertions THEN Abort(SpawnFailed(spawned))
                     ELSE SpawnFailed(spawned),
              cmd |-> next, wait |-> <<>>]
        ELSE [ok |-> TRUE, abort |-> FALSE, st |-> Spawned(spawned, errcmd),
              cmd |-> next, wait |-> <<child, child + 1>>]

\* self.pipe_to(out, err) with self = cmd; oc says which spawn fails, if
\* any.  When errcmd.spawn() fails, `?` drops errcmd and then child, which
\* closes the descriptor of the child's error pipe a second time.
pipe_to(out, err, oc) ==
    LET child == Len(procs) + 1
        next == [Command(out[1], Tail(out)) EXCEPT !.stdin = StdoutOf(child)]
        errcmd == [Command(Unwrap(err)[1], Tail(Unwrap(err)))
                       EXCEPT !.stdin = StderrOf(child)]
        spawned == Spawned(Now, cmd)
    IN  IF oc = "spawn_err"
        THEN [ok |-> FALSE, abort |-> FALSE, st |-> SpawnFailed(Now),
              cmd |-> cmd, wait |-> <<>>]
        ELSE IF IsNone(err)
        THEN [ok |-> TRUE, abort |-> FALSE, st |-> spawned, cmd |-> next,
              wait |-> <<child>>]
        ELSE IF oc = "errcmd_spawn_err"
        THEN [ok |-> FALSE, abort |-> debugAssertions,
              st |-> IF debugAssertions THEN Abort(SpawnFailed(spawned))
                     ELSE SpawnFailed(spawned),
              cmd |-> next, wait |-> <<>>]
        ELSE [ok |-> TRUE, abort |-> FALSE, st |-> Spawned(spawned, errcmd),
              cmd |-> next, wait |-> <<child + 1, child>>]

(***************************************************************************)
(* run (main.rs:154-156): Command::status, then code().unwrap_or(1).       *)
(***************************************************************************)
Ok(code) == Some([ok |-> TRUE, code |-> code])
Err == Some([ok |-> FALSE, code |-> 0])

RunOutcomes == {[spawn_err |-> TRUE, err |-> FALSE, status |-> None]}
                   \cup {[spawn_err |-> FALSE, err |-> o.err, status |-> o.status]
                            : o \in WaitOutcomes}

\* the outcomes of a run that MaxFaults allows
AllowedRunOutcomes ==
    {oc \in RunOutcomes : ~oc.spawn_err /\ Abnormal(oc) => faults < MaxFaults}

RunFaults(oc) == IF ~oc.spawn_err /\ Abnormal(oc) THEN 1 ELSE 0

\* run with code().unwrap_or(0)
run_unwrap_or_0(c, oc) ==
    IF oc.spawn_err THEN [result |-> Err, st |-> SpawnFailed(Now)]
    ELSE [result |-> IF oc.err THEN Err
                     ELSE Ok(IF IsSome(oc.status) THEN Unwrap(oc.status) ELSE 0),
          st |-> Waited(Spawned(Now, c), Len(procs) + 1,
                        [err |-> oc.err, status |-> oc.status])]

\* run with `if status.success() { 0 } else { 1 }`
run_success_flag(c, oc) ==
    IF oc.spawn_err THEN [result |-> Err, st |-> SpawnFailed(Now)]
    ELSE [result |-> IF oc.err THEN Err
                     ELSE Ok(IF Success(oc.status) THEN 0 ELSE 1),
          st |-> Waited(Spawned(Now, c), Len(procs) + 1,
                        [err |-> oc.err, status |-> oc.status])]

run(c, oc) ==
    IF oc.spawn_err THEN [result |-> Err, st |-> SpawnFailed(Now)]
    ELSE [result |-> IF oc.err THEN Err
                     ELSE Ok(IF IsSome(oc.status) THEN Unwrap(oc.status) ELSE 1),
          st |-> Waited(Spawned(Now, c), Len(procs) + 1,
                        [err |-> oc.err, status |-> oc.status])]

(***************************************************************************)
(* Diagnostic Filter (main.rs:302-344).  A line is the sequence of the     *)
(* bytes that read_line takes from the standard input, the line feed that  *)
(* ends it included; a String or str is the sequence of its UTF-8 bytes.   *)
(***************************************************************************)
\* str::as_bytes of a text of this module, which is ASCII: tab, line feed,
\* form feed, carriage return, U+0020..U+005F and U+0061..U+007E
Printable == " !\"#$%&'()*+,-./0123456789:;<=>?@ABCDEFGHIJKLMNOPQRSTUVWXYZ[\\]^_"
PrintableHigh == "abcdefghijklmnopqrstuvwxyz{|}~"

as_byte(c) ==
    IF c = "\t" THEN 9
    ELSE IF c = "\n" THEN 10
    ELSE IF c = "\f" THEN 12
    ELSE IF c = "\r" THEN 13
    ELSE IF \E i \in 1..Len(Printable) : SubSeq(Printable, i, i) = c
    THEN 31 + CHOOSE i \in 1..Len(Printable) : SubSeq(Printable, i, i) = c
    ELSE 96 + CHOOSE i \in 1..Len(PrintableHigh) : SubSeq(PrintableHigh, i, i) = c

as_bytes(s) == [i \in 1..Len(s) |-> as_byte(SubSeq(s, i, i))]

\* a byte in 0x80..0xBF continues the UTF-8 sequence of a character
utf8_is_cont_byte(b) == b \in 128..191

\* the length of the UTF-8 sequence that the byte b starts, 0 for a byte
\* that starts none
utf8_char_width(b) ==
    IF b < 128 THEN 1
    ELSE IF b \in 194..223 THEN 2
    ELSE IF b \in 224..239 THEN 3
    ELSE IF b \in 240..244 THEN 4
    ELSE 0

\* the character whose UTF-8 sequence starts at v[i]: no overlong form, no
\* surrogate, nothing above U+10FFFF
next_code_point(v, i) ==
    LET b == v[i]
        w == utf8_char_width(b)
        cont(k) == i + k <= Len(v) /\ utf8_is_cont_byte(v[i + k])
        bits(k) == v[i + k] - 128
    IN  IF w = 1 THEN [ok |-> TRUE, len |-> 1, ch |-> b]
        ELSE IF w = 2 /\ cont(1)
        THEN [ok |-> TRUE, len |-> 2, ch |-> (b - 192) * 64 + bits(1)]
        ELSE IF /\ w = 3 /\ cont(1) /\ cont(2)
                /\ b = 224 => v[i + 1] >= 160
                /\ b = 237 => v[i + 1] <= 159
        THEN [ok |-> TRUE, len |-> 3,
              ch |-> (b - 224) * 4096 + bits(1) * 64 + bits(2)]
        ELSE IF /\ w = 4 /\ cont(1) /\ cont(2) /\ cont(3)
                /\ b = 240 => v[i + 1] >= 144
                /\ b = 244 => v[i + 1] <= 143
        THEN [ok |-> TRUE, len |-> 4,
              ch |-> (b - 240) * 262144 + bits(1) * 4096 + bits(2) * 64 + bits(3)]
        ELSE [ok |-> FALSE, len |-> 0, ch |-> 0]

\* str::char_indices: the positions where the characters of v start
char_indices(v) == {i \in 1..Len(v) : ~utf8_is_cont_byte(v[i])}

\* v is UTF-8: every byte belongs to the sequence of a character, which
\* starts at most three bytes in front of it
run_utf8_validation(v) ==
    \A j \in 1..Len(v) :
        \E i \in {k \in (j - 3)..j : k >= 1} :
            /\ ~utf8_is_cont_byte(v[i])
            /\ j < i + next_code_point(v, i).len

\* str::from_utf8: v as a str, or None when v is not UTF-8
from_utf8(v) == IF run_utf8_validation(v) THEN Some(v) ELSE None

\* io::stdin().read_line(&mut line) on the bytes of the next line: it fails
\* when they are not UTF-8 and leaves `line` as it was
read_line(bytes) == from_utf8(bytes)

\* char::is_whitespace: the code points with the White_Space property,
\* U+0009..U+000D, U+0020, U+0085, U+00A0, U+1680, U+2000..U+200A, U+2028,
\* U+2029, U+202F, U+205F and U+3000
Whitespace ==
    (9..13) \cup {32, 133, 160, 5760} \cup (8192..8202)
        \cup {8232, 8233, 8239, 8287, 12288}

\* line.trim().is_empty()
TrimIsEmpty(line) ==
    \A i \in char_indices(line) : next_code_point(line, i).ch \in Whitespace

\* line.contains(s) on the bytes of the two texts
ContainsBytes(line, pat) ==
    \E i \in 1..(Len(line) - Len(pat) + 1) :
        \A k \in 1..Len(pat) : line[i + k - 1] = pat[k]

blacklist ==
    <<as_bytes("ignoring specified output filename because multiple outputs were requested"),
      as_bytes("ignoring specified output filename for 'link' output because multiple outputs were requested"),
      as_bytes("ignoring --out-dir flag due to -o flag."),
      as_bytes("due to multiple output types requested, the explicitly specified output file name will be adapted for each output type")>>

ignore_rustfmt_err(line) == TRUE

ignore_cargo_err(line) ==
    IF TrimIsEmpty(line) THEN TRUE
    ELSE \E k \in 1..Len(blacklist) : ContainsBytes(line, blacklist[k])

Ignore(sentinel, line) ==
    IF sentinel = "--filter-cargo" THEN ignore_cargo_err(line)
    ELSE ignore_rustfmt_err(line)

\* the read_line loop of filter_err: what reaches the error stream, and the
\* lines left on the input when the loop ends.  It ends at the end of the
\* input (Ok(0)) and at the first line read_line fails on.
RECURSIVE filter_err(_, _)
filter_err(sentinel, lines) ==
    IF lines = <<>> THEN [stderr |-> <<>>, unread |-> <<>>]
    ELSE LET line == read_line(Head(lines))
         IN  IF IsNone(line)
             THEN [stderr |-> <<>>, unread |-> Tail(lines)]
             ELSE IF Ignore(sentinel, Unwrap(line))
             THEN filter_err(sentinel, Tail(lines))
             ELSE [filter_err(sentinel, Tail(lines))
                       EXCEPT !.stderr = <<Unwrap(line)>> \o @]

\* the lines a run can read
BlankLine == as_bytes("\n")
FormFeedLine == as_bytes("\f\n")
\* U+00A0, line feed
NbspLine == <<194, 160, 10>>
\* U+1680, line feed
OghamLine == <<225, 154, 128, 10>>
\* space, tab, U+2003, U+3000, carriage return, line feed
WideBlankLine == <<32, 9, 226, 128, 131, 227, 128, 128, 13, 10>>
\* U+200B ZERO WIDTH SPACE, which is not white space, line feed
ZeroWidthLine == <<226, 128, 139, 10>>
ErrorLine == as_bytes("error[E0432]: unresolved import\n")
AbortLine == as_bytes("error: aborting due to previous error\n")
\* `caf`, the byte 0xE9 (an `e` with acute accent in Latin-1), line feed:
\* not UTF-8
Latin1Line == as_bytes("caf") \o <<233>> \o as_bytes("\n")
AdvisoryLines ==
    {as_bytes("warning: ") \o blacklist[k] \o as_bytes("\n") :
        k \in 1..Len(blacklist)}

FilterLines ==
    {BlankLine, FormFeedLine, NbspLine, OghamLine, WideBlankLine,
     ZeroWidthLine, ErrorLine, AbortLine, Latin1Line} \cup AdvisoryLines

Last(s) == s[Len(s)]

\* FilterMode that knows the build-tool sentinel only
FilterModeCargoOnly == ToStrOrEmpty(Last(argv)) = "--filter-cargo"

FilterMode == ToStrOrEmpty(Last(argv)) \in {"--filter-cargo", "--filter-rustfmt"}

(***************************************************************************)
(* Initial state: the program has just been started by `cargo expand ...`. *)
(***************************************************************************)
NoWaits == [b \in {"cargo", "fmt0", "fmt1", "pyg"} |-> <<>>]
NoCommand == Command("", <<>>)

\* the locals of an invocation that has not run yet
Fresh ==
    /\ maybeNightly = None
    /\ whichRustfmt = None
    /\ whichPygmentize = None
    /\ cmd = NoCommand
    /\ waits = NoWaits
    /\ result = None
    /\ exitCode = None
    /\ synth = <<>>
    /\ stderrOut = <<>>

Envs ==
    {e \in [EnvNames -> {None, Some(""), Some("/opt/tool")}] :
        /\ e["CARGO"] = None
        /\ e[NO_RUN_NIGHTLY] # Some("/opt/tool")}

\* no override of the optional tools, the re-exec guard set or not
PlainEnvs == {e \in Envs : e["RUSTFMT"] = None /\ e["PYGMENTIZE"] = None}

\* the inputs of a run: every bounded argument list under a plain
\* environment, and every environment under the bare `cargo expand` and
\* under `cargo expand --help`; a Diagnostic Filter has a line to read
Init ==
    /\ \/ /\ argv \in {Argv(u) : u \in PipeArgs}
          /\ env \in PlainEnvs
       \/ /\ argv \in {Argv(<<>>), Argv(<<"--help">>)}
          /\ env \in Envs
    /\ stdoutTty \in BOOLEAN
    /\ stderrTty \in BOOLEAN
    /\ stdin \in IF FilterMode THEN SeqsUpTo(FilterLines, 1) ELSE {<<>>}
    /\ unread = stdin
    /\ debugAssertions \in BOOLEAN
    /\ pc = "main"
    /\ frames = <<>>
    /\ outdir = "none"
    /\ procs = <<>>
    /\ log = <<>>
    /\ faults = 0
    /\ Fresh

\* what an invocation is started with and never changes
ambient == <<stdoutTty, stderrTty, stdin, debugAssertions>>
invocation == <<argv, env, frames, maybeNightly>>

(***************************************************************************)
(* main and cargo_expand_or_run_nightly (main.rs:16-49).                   *)
(***************************************************************************)
\* the condition of main.rs:31 without the guard variable
RunsDirectlyIgnoringGuard(maybe_nightly, e) == maybe_nightly

\* main.rs:31, the condition under which the program runs cargo_expand itself
RunsDirectly(maybe_nightly, e) == maybe_nightly \/ IsSome(e[NO_RUN_NIGHTLY])

\* main.rs:30-33
CargoExpandOrRunNightly ==
    /\ pc = "main"
    /\ \E out \in VersionOutputs :
        LET maybe_nightly == ~definitely_not_nightly(out)
            st == VersionQuery(out)
        IN  /\ faults + RunFaults(out) <= MaxFaults
            /\ faults' = faults + RunFaults(out)
            /\ maybeNightly' = Some(maybe_nightly)
            /\ procs' = st.procs
            /\ log' = st.log
            /\ pc' = IF RunsDirectly(maybe_nightly, env) THEN "cargo_expand"
                     ELSE "run_nightly"
    /\ UNCHANGED <<argv, env, frames, ambient, whichRustfmt, whichPygmentize,
                   outdir, cmd, waits, result, exitCode, synth, stderrOut, unread>>

\* the re-exec environment without `nightly.env(NO_RUN_NIGHTLY, "")`
NightlyEnvUnguarded == env

\* main.rs:35-41, the command and the environment of the re-exec
NightlyCommand == Command("cargo", <<"+nightly", "expand">> \o Tail(argv))
NightlyEnv == [env EXCEPT ![NO_RUN_NIGHTLY] = Some("")]

\* `cargo +nightly expand <args>` makes cargo start the program again as
\* `cargo-expand expand <args>`, with the environment cargo was given
NightlyArgv == <<argv[1], "expand">> \o Tail(argv)

\* main.rs:43, nightly.status()?: the spawn fails, or the child invocation
\* starts and the parent is suspended until it exits
RunNightly ==
    /\ pc = "run_nightly"
    /\ \/ /\ pc' = "main_exit"
          /\ result' = Err
          /\ log' = SpawnFailed(Now).log
          /\ UNCHANGED <<argv, env, frames, maybeNightly, procs>>
       \/ /\ Level < MaxLevel
          /\ pc' = "main"
          /\ frames' = Append(frames, [argv |-> argv, env |-> env,
                                       child |-> Len(procs) + 1])
          /\ argv' = NightlyArgv
          /\ env' = NightlyEnv
          /\ maybeNightly' = None
          /\ procs' = Spawned(Now, NightlyCommand).procs
          /\ log' = Spawned(Now, NightlyCommand).log
          /\ UNCHANGED result
    /\ UNCHANGED <<ambient, whichRustfmt, whichPygmentize, outdir, cmd, waits,
                   exitCode, synth, stderrOut, unread, faults>>

\* main.rs:43-48, nightly.status() returns in the parent once the child
\* invocation has exited (or cargo was killed): the wait gives the status,
\* or it fails and `?` hands the error to main
NightlyStatus ==
    /\ pc = "exited"
    /\ frames # <<>>
    /\ \E o \in {[err |-> FALSE, status |-> exitCode],
                  [err |-> FALSE, status |-> None],
                  [err |-> TRUE, status |-> None]} :
        LET top == Last(frames)
            status == o.status
            code == IF IsSome(status) THEN Unwrap(status)
                    ELSE IF Success(status) THEN 0 ELSE 1
            wait == [ev |-> "wait", pid |-> top.child, owner |-> Level - 1,
                     at |-> "run_nightly"]
        IN  /\ o.err => faults < MaxFaults
            /\ faults' = IF o.err THEN faults + 1 ELSE faults
            /\ frames' = SubSeq(frames, 1, Len(frames) - 1)
            /\ argv' = top.argv
            /\ env' = top.env
            /\ procs' = IF o.err
                        THEN [procs EXCEPT ![top.child].state = "wait_failed"]
                        ELSE [procs EXCEPT ![top.child].state = "reaped",
                                           ![top.child].status = status]
            /\ log' = IF o.err
                      THEN log \o <<wait, [wait EXCEPT !.ev = "wait_err"]>>
                      ELSE Append(log, wait)
            /\ result' = IF o.err THEN Err ELSE Ok(code)
    /\ pc' = "main_exit"
    /\ maybeNightly' = Some(FALSE)
    /\ whichRustfmt' = None
    /\ whichPygmentize' = None
    /\ outdir' = "none"
    /\ cmd' = NoCommand
    /\ waits' = NoWaits
    /\ exitCode' = None
    /\ synth' = <<>>
    /\ UNCHANGED <<ambient, stderrOut, unread>>

\* main.rs:16-25: process::exit with the code, or print the error and exit 1
MainExit ==
    /\ pc = "main_exit"
    /\ pc' = "exited"
    /\ IF Unwrap(result).ok
       THEN /\ exitCode' = Some(Unwrap(result).code)
            /\ log' = log
       ELSE /\ exitCode' = Some(1)
            /\ log' = Append(log, Event("eprint", 0))
    /\ UNCHANGED <<invocation, ambient, whichRustfmt, whichPygmentize, outdir, cmd,
                   waits, procs, result, synth, stderrOut, unread, faults>>

(***************************************************************************)
(* cargo_expand, unix (main.rs:80-152).                                    *)
(***************************************************************************)
\* main.rs:82-87, the sentinel dispatch: filter_err never returns, it exits
\* with 0 when its loop ends
FilterErr ==
    /\ pc = "cargo_expand"
    /\ FilterMode
    /\ LET done == filter_err(ToStrOrEmpty(Last(argv)), stdin)
       IN  /\ stderrOut' = done.stderr
           /\ unread' = done.unread
    /\ exitCode' = Some(0)
    /\ pc' = "exited"
    /\ UNCHANGED <<invocation, ambient, whichRustfmt, whichPygmentize, outdir, cmd,
                   waits, procs, log, result, synth, faults>>

\* main.rs:95
WhichRustfmt ==
    /\ pc = "cargo_expand"
    /\ ~FilterMode
    /\ \E probe \in ProbeOutcomes :
        /\ faults + WhichFaults(<<"rustfmt">>, probe) <= MaxFaults
        /\ faults' = faults + WhichFaults(<<"rustfmt">>, probe)
        /\ whichRustfmt' = which(<<"rustfmt">>, probe)
        /\ procs' = WhichEffects(<<"rustfmt">>, probe).procs
        /\ log' = WhichEffects(<<"rustfmt">>, probe).log
    /\ pc' = "which_pygmentize"
    /\ UNCHANGED <<invocation, ambient, whichPygmentize, outdir, cmd, waits, result,
                   exitCode, synth, stderrOut, unread>>

\* main.rs:96-100
WhichPygmentize ==
    /\ pc = "which_pygmentize"
    /\ IF ~color_never(argv) /\ stdoutTty
       THEN \E probe \in ProbeOutcomes :
               LET c == <<"pygmentize", "-l", "rust">>
               IN  /\ faults + WhichFaults(c, probe) <= MaxFaults
                   /\ faults' = faults + WhichFaults(c, probe)
                   /\ whichPygmentize' = which(c, probe)
                   /\ procs' = WhichEffects(c, probe).procs
                   /\ log' = WhichEffects(c, probe).log
       ELSE /\ whichPygmentize' = None
            /\ UNCHANGED <<procs, log, faults>>
    /\ pc' = "outdir"
    /\ UNCHANGED <<invocation, ambient, whichRustfmt, outdir, cmd, waits, result,
                   exitCode, synth, stderrOut, unread>>

\* main.rs:109
Outfile(dir) == IF dir = "created" THEN Some(OutfilePath) ELSE None

\* main.rs:102-113: outdir, outfile and the cargo command; a failure to
\* create the directory panics (`expect`), which ends the process with 101
BuildCommand ==
    /\ pc = "outdir"
    /\ IF IsSome(whichRustfmt) \/ IsSome(whichPygmentize)
       THEN \E created \in BOOLEAN :
               IF created
               THEN /\ outdir' = "created"
                    /\ log' = Append(log, Event("mkdir", 0))
                    /\ pc' = "pipe_cargo"
                    /\ UNCHANGED exitCode
               ELSE /\ outdir' = "none"
                    /\ log' = Append(log, Event("panic", 0))
                    /\ pc' = "exited"
                    /\ exitCode' = Some(101)
       ELSE /\ outdir' = "none"
            /\ pc' = "pipe_rustfmt"
            /\ UNCHANGED <<log, exitCode>>
    /\ IF pc' = "exited"
       THEN UNCHANGED <<synth, cmd>>
       ELSE /\ synth' = wrap_args(argv, Outfile(outdir'), stderrTty)
            /\ cmd' = Command(cargo_binary, synth')
    /\ UNCHANGED <<invocation, ambient, whichRustfmt, whichPygmentize, waits, procs,
                   result, stderrOut, unread, faults>>

\* PipeStep with the Wait bound to `_`: it is dropped at once
PipeStepDropNow(out, err, binding, next) ==
    \E oc \in PipeOutcomes :
        LET r == pipe_to(out, err, oc)
            dropped == WaitDrop(r.wait,
                           [p \in Range(r.wait) |->
                               [err |-> FALSE, status |-> Some(0)]], r.st)
        IN  /\ oc = "errcmd_spawn_err" => IsSome(err)
            /\ procs' = dropped.procs
            /\ log' = dropped.log
            /\ cmd' = r.cmd
            /\ UNCHANGED waits
            /\ IF r.ok
               THEN pc' = next /\ UNCHANGED result
               ELSE IF r.abort
               THEN pc' = "exited" /\ UNCHANGED result
               ELSE pc' = "scope_exit" /\ result' = Err

\* one `cmd.pipe_to(out, err)?` whose Wait is bound to `binding`
PipeStep(out, err, binding, next) ==
    \E oc \in PipeOutcomes :
        LET r == pipe_to(out, err, oc)
        IN  /\ oc = "errcmd_spawn_err" => IsSome(err)
            /\ procs' = r.st.procs
            /\ log' = r.st.log
            /\ cmd' = r.cmd
            /\ IF r.ok
               THEN /\ waits' = [waits EXCEPT ![binding] = r.wait]
                    /\ pc' = next
                    /\ UNCHANGED result
               ELSE IF r.abort
               THEN /\ pc' = "exited"
                    /\ UNCHANGED <<waits, result>>
               ELSE /\ result' = Err
                    /\ pc' = "scope_exit"
                    /\ UNCHANGED waits

\* main.rs:117-119 and 133-135: the program's own arguments and a sentinel
FilterArgs(sentinel) == Some(Append(argv, sentinel))

\* main.rs:121
PipeCargo ==
    /\ pc = "pipe_cargo"
    /\ PipeStep(<<"cat">>, FilterArgs("--filter-cargo"), "cargo", "run_cat")
    /\ UNCHANGED <<invocation, ambient, whichRustfmt, whichPygmentize, outdir,
                   exitCode, synth, stderrOut, unread, faults>>

\* main.rs:122, `run(cmd)?`: the code of the buffering cat is dropped
RunCat ==
    /\ pc = "run_cat"
    /\ \E oc \in AllowedRunOutcomes :
        LET r == run(cmd, oc)
        IN  /\ faults' = faults + RunFaults(oc)
            /\ procs' = r.st.procs
            /\ log' = r.st.log
            /\ IF Unwrap(r.result).ok
               THEN pc' = "drop_wait" /\ UNCHANGED result
               ELSE pc' = "scope_exit" /\ result' = r.result
    /\ UNCHANGED <<invocation, ambient, whichRustfmt, whichPygmentize, outdir, cmd,
                   waits, exitCode, synth, stderrOut, unread>>

\* DropWait with `mem::forget(_wait)`: the handles are given up un-waited
DropWaitForget ==
    /\ pc = "drop_wait"
    /\ waits' = [waits EXCEPT !["cargo"] = <<>>]
    /\ cmd' = Command("cat", <<OutfilePath>>)
    /\ pc' = "pipe_rustfmt"
    /\ UNCHANGED <<invocation, ambient, whichRustfmt, whichPygmentize, outdir,
                   result, exitCode, synth, stderrOut, unread, procs, log, faults>>

\* main.rs:123-126; `run` has dropped the Command that read from the
\* compiler by now
DropWait ==
    /\ pc = "drop_wait"
    /\ \E oc \in DropOutcomes(waits["cargo"]) :
        LET d == WaitDropped(waits["cargo"], oc, Now)
        IN  /\ faults' = faults + FaultsIn(waits["cargo"], oc)
            /\ procs' = d.st.procs
            /\ log' = d.st.log
            /\ IF d.abort
               THEN pc' = "exited" /\ UNCHANGED cmd
               ELSE pc' = "pipe_rustfmt"
                    /\ cmd' = Command("cat", <<OutfilePath>>)
    /\ waits' = [waits EXCEPT !["cargo"] = <<>>]
    /\ UNCHANGED <<invocation, ambient, whichRustfmt, whichPygmentize, outdir,
                   result, exitCode, synth, stderrOut, unread>>

\* main.rs:130-138
PipeRustfmt ==
    /\ pc = "pipe_rustfmt"
    /\ IF IsSome(whichRustfmt)
       THEN PipeStep(<<Unwrap(whichRustfmt)>>, None, "fmt0", "pipe_rustfmt_cat")
       ELSE /\ pc' = "pipe_pygmentize"
            /\ UNCHANGED <<procs, log, cmd, waits, result>>
    /\ UNCHANGED <<invocation, ambient, whichRustfmt, whichPygmentize, outdir,
                   exitCode, synth, stderrOut, unread, faults>>

\* main.rs:139
PipeRustfmtCat ==
    /\ pc = "pipe_rustfmt_cat"
    /\ PipeStep(<<"cat">>, FilterArgs("--filter-rustfmt"), "fmt1",
                "pipe_pygmentize")
    /\ UNCHANGED <<invocation, ambient, whichRustfmt, whichPygmentize, outdir,
                   exitCode, synth, stderrOut, unread, faults>>

\* main.rs:146-149
PipePygmentize ==
    /\ pc = "pipe_pygmentize"
    /\ IF IsSome(whichPygmentize)
       THEN PipeStep(<<Unwrap(whichPygmentize), "-l", "rust", "-O",
                       "encoding=utf8">>, None, "pyg", "run_final")
       ELSE /\ pc' = "run_final"
            /\ UNCHANGED <<procs, log, cmd, waits, result>>
    /\ UNCHANGED <<invocation, ambient, whichRustfmt, whichPygmentize, outdir,
                   exitCode, synth, stderrOut, unread, faults>>

\* main.rs:151
RunFinal ==
    /\ pc = "run_final"
    /\ \E oc \in AllowedRunOutcomes :
        LET r == run(cmd, oc)
        IN  /\ faults' = faults + RunFaults(oc)
            /\ procs' = r.st.procs
            /\ log' = r.st.log
            /\ result' = r.result
    /\ pc' = "scope_exit"
    /\ UNCHANGED <<invocation, ambient, whichRustfmt, whichPygmentize, outdir, cmd,
                   waits, exitCode, synth, stderrOut, unread>>

\* the locals of cargo_expand go out of scope in reverse order of
\* declaration: the Wait values (a tuple drops its fields in order), then
\* the temporary directory
DropOrder == waits["pyg"] \o waits["fmt0"] \o waits["fmt1"] \o waits["cargo"]

\* the children that ScopeExit waits on: a build with debug assertions does
\* not get past the first Wait that holds a child
RECURSIVE FirstWait(_)
FirstWait(ws) ==
    IF ws = <<>> THEN <<>>
    ELSE IF Head(ws) # <<>> THEN Head(ws)
    ELSE FirstWait(Tail(ws))

ScopeWaits ==
    IF debugAssertions
    THEN FirstWait(<<waits["pyg"], waits["fmt0"], waits["fmt1"], waits["cargo"]>>)
    ELSE DropOrder

\* main.rs:152 and every `?` of cargo_expand
ScopeExit ==
    /\ pc = "scope_exit"
    /\ \E oc \in DropOutcomes(ScopeWaits) :
        LET d == WaitDropped(ScopeWaits, oc, Now)
        IN  /\ faults' = faults + FaultsIn(ScopeWaits, oc)
            /\ procs' = d.st.procs
            /\ log' = IF ~d.abort /\ outdir = "created"
                      THEN Append(d.st.log, Event("rmdir", 0)) ELSE d.st.log
            /\ pc' = IF d.abort THEN "exited" ELSE "main_exit"
            /\ outdir' = IF ~d.abort /\ outdir = "created" THEN "deleted"
                         ELSE outdir
    /\ waits' = NoWaits
    /\ UNCHANGED <<invocation, ambient, whichRustfmt, whichPygmentize, cmd, result,
                   exitCode, synth, stderrOut, unread>>

Next ==
    \/ CargoExpandOrRunNightly
    \/ RunNightly
    \/ NightlyStatus
    \/ MainExit
    \/ FilterErr
    \/ WhichRustfmt
    \/ WhichPygmentize
    \/ BuildCommand
    \/ PipeCargo
    \/ RunCat
    \/ DropWait
    \/ PipeRustfmt
    \/ PipeRustfmtCat
    \/ PipePygmentize
    \/ RunFinal
    \/ ScopeExit

Spec == Init /\ [][Next]_vars

(***************************************************************************)
(* Argument synthesis on its own: wrap_args applied to every bounded       *)
(* argument list, with and without an output file.                         *)
(***************************************************************************)
InitArgs ==
    /\ argv \in {Argv(u) : u \in SeqsUpTo(ArgTokens, MaxUserArgs)}
    /\ env = [n \in EnvNames |-> None]
    /\ stdoutTty = FALSE
    /\ stderrTty \in BOOLEAN
    /\ stdin = <<>>
    /\ unread = stdin
    /\ debugAssertions \in BOOLEAN
    /\ pc = "wrap_args"
    /\ frames = <<>>
    /\ outdir \in {"none", "created"}
    /\ procs = <<>>
    /\ log = <<>>
    /\ faults = 0
    /\ Fresh

WrapArgs ==
    /\ pc = "wrap_args"
    /\ synth' = wrap_args(argv, Outfile(outdir), stderrTty)
    /\ pc' = "wrapped"
    /\ UNCHANGED <<invocation, ambient, whichRustfmt, whichPygmentize, outdir, cmd,
                   waits, procs, log, result, exitCode, stderrOut, unread, faults>>

NextArgs == WrapArgs

SpecArgs == InitArgs /\ [][NextArgs]_vars

(***************************************************************************)
(* The Diagnostic Filter on its own: an invocation whose last argument is  *)
(* a sentinel, with every bounded sequence of lines on its input.  It runs *)
(* filter_err itself or, as any invocation, through a re-exec.             *)
(***************************************************************************)
InitFilter ==
    /\ argv \in {Argv(<<"--filter-cargo">>), Argv(<<"--filter-rustfmt">>)}
    /\ env \in PlainEnvs
    /\ stdoutTty = FALSE
    /\ stderrTty \in BOOLEAN
    /\ stdin \in SeqsUpTo(FilterLines, MaxLines)
    /\ unread = stdin
    /\ debugAssertions \in BOOLEAN
    /\ pc = "main"
    /\ frames = <<>>
    /\ outdir = "none"
    /\ procs = <<>>
    /\ log = <<>>
    /\ faults = 0
    /\ Fresh

NextFilter ==
    \/ CargoExpandOrRunNightly
    \/ RunNightly
    \/ NightlyStatus
    \/ MainExit
    \/ FilterErr

SpecFilter == InitFilter /\ [][NextFilter]_vars

TypeOK == pc \in {"main", "run_nightly", "main_exit", "exited", "cargo_expand",
                  "which_pygmentize", "outdir", "pipe_cargo", "run_cat",
                  "drop_wait", "pipe_rustfmt", "pipe_rustfmt_cat",
                  "pipe_pygmentize", "run_final", "scope_exit", "wrap_args",
                  "wrapped"}

(***************************************************************************)
(* Vocabulary of the properties.                                           *)
(***************************************************************************)
Pids == 1..Len(procs)
Mine(p) == procs[p].owner = Level

\* the positions of the log where p is waited on, and where it is spawned
WaitIdx(p) == {i \in 1..Len(log) : log[i].ev = "wait" /\ log[i].pid = p}
SpawnIdx(p) == CHOOSE i \in 1..Len(log) : log[i].ev = "spawn" /\ log[i].pid = p

PipeSites == {"pipe_cargo", "pipe_rustfmt", "pipe_rustfmt_cat",
              "pipe_pygmentize"}
RunSites == {"run_cat", "run_final"}

\* the stage that the running invocation ran last, synchronously
FinalStages == {p \in Pids : Mine(p) /\ log[SpawnIdx(p)].at = "run_final"}

\* status.code().unwrap_or(1) of a child, 1 as well when it gave no status
ReportedCode(p) ==
    IF procs[p].state = "reaped" /\ IsSome(procs[p].status)
    THEN Unwrap(procs[p].status) ELSE 1

IsNightly(pr) == pr.prog = "cargo" /\ pr.args # <<>> /\ pr.args[1] = "+nightly"

\* a stage of the chain: the compiler invocation or a process fed by a stage
IsStage(pr) ==
    \/ pr.stdin.fd = "stdout"
    \/ pr.stdin.fd = "inherit" /\ ~IsNightly(pr)

(***************************************************************************)
(* C1.  When the chain reaches its final stage, the exit code of the       *)
(* program is the code of that stage, or 1 if it reported none, whatever   *)
(* the other children reported.                                            *)
(***************************************************************************)
C1_ExitCodeOfFinalStage ==
    pc = "exited" => \A p \in FinalStages : exitCode = Some(ReportedCode(p))

\* both optional stages ran, an earlier child failed, the final one did not
C1_Witness ==
    /\ pc = "exited"
    /\ IsSome(whichRustfmt) /\ IsSome(whichPygmentize)
    /\ \E p \in FinalStages : procs[p].status = Some(0) /\ exitCode = Some(0)
    /\ \E q \in Pids : Mine(q) /\ IsStage(procs[q])
                       /\ procs[q].status = Some(101)

(***************************************************************************)
(* C2.  A Diagnostic Filter is waited on before the process whose error    *)
(* stream it reads: that process is never waited on unless its filter has  *)
(* been waited on earlier.                                                 *)
(***************************************************************************)
C2_FilterWaitedFirst ==
    \A f \in Pids :
        procs[f].stdin.fd = "stderr" =>
            \A i \in WaitIdx(procs[f].stdin.of) : \E j \in WaitIdx(f) : j < i

C2_Witness ==
    \E f \in Pids :
        /\ procs[f].stdin.fd = "stderr"
        /\ WaitIdx(f) # {}
        /\ WaitIdx(procs[f].stdin.of) # {}

(***************************************************************************)
(* C3.  As stated: no stage has finished running while the process that    *)
(* feeds it is still un-waited.                                            *)
(***************************************************************************)
C3_Original ==
    \A q \in Pids :
        procs[q].stdin.fd = "stdout" /\ WaitIdx(q) # {}
            => WaitIdx(procs[q].stdin.of) # {}

(***************************************************************************)
(* C3, amended.  The handles of a linking step are released after, not     *)
(* before, the stage the orchestrator runs to completion next: a process   *)
(* spawned by pipe_to is waited on only once a later `run` has finished or *)
(* a later spawn has failed.                                               *)
(***************************************************************************)
C3_ReleasedAfterNextRun ==
    \A i \in 1..Len(log) :
        log[i].ev = "wait" /\ log[SpawnIdx(log[i].pid)].at \in PipeSites =>
            \E j \in (SpawnIdx(log[i].pid) + 1)..(i - 1) :
                /\ log[j].owner = log[i].owner
                /\ \/ log[j].ev = "wait" /\ log[j].at \in RunSites
                   \/ log[j].ev = "spawn_err"

\* the compiler's handles have been released after the buffering cat ran
C3_Witness ==
    /\ pc = "pipe_rustfmt"
    /\ \E p \in Pids : /\ Mine(p)
                       /\ log[SpawnIdx(p)].at = "pipe_cargo"
                       /\ procs[p].state = "reaped"

(***************************************************************************)
(* C4.  As stated: when an invocation exits, each child it spawned has     *)
(* been waited on exactly once.                                            *)
(***************************************************************************)
C4_WaitedExactlyOnce ==
    pc = "exited" =>
        \A p \in Pids : Mine(p) => Cardinality(WaitIdx(p)) = 1

(***************************************************************************)
(* C5.  Re-exec happens at most once along a chain of invocations: every   *)
(* invocation that re-execs was started without the guard variable, every  *)
(* re-exec child runs with it set, and no chain holds two re-execs.        *)
(***************************************************************************)
C5_ReExecAtMostOnce ==
    /\ Cardinality({p \in Pids : IsNightly(procs[p])}) <= 1
    /\ \A k \in 1..Len(frames) : IsNone(frames[k].env[NO_RUN_NIGHTLY])
    /\ pc = "run_nightly" => IsNone(env[NO_RUN_NIGHTLY])
    /\ Level > 0 => IsSome(env[NO_RUN_NIGHTLY])

\* a re-exec child whose own prober says "definitely not nightly" runs
\* cargo_expand itself
C5_Witness ==
    /\ Level = 1
    /\ pc = "cargo_expand"
    /\ maybeNightly = Some(FALSE)

(***************************************************************************)
(* C6.  As stated: re-exec is performed iff NOT (the prober returns true   *)
(* and the guard variable is unset).                                       *)
(***************************************************************************)
ProberTrueAndUnguarded ==
    maybeNightly = Some(FALSE) /\ IsNone(env[NO_RUN_NIGHTLY])

C6_Original ==
    pc \in {"run_nightly", "cargo_expand"} =>
        (pc = "run_nightly" <=> ~ProberTrueAndUnguarded)

(***************************************************************************)
(* C6, amended.  Re-exec is performed iff the prober returns true          *)
(* ("definitely not nightly") and the guard variable is unset; in the      *)
(* three other combinations the program runs cargo_expand itself.          *)
(***************************************************************************)
C6_ReExecIffProberTrueAndUnguarded ==
    pc \in {"run_nightly", "cargo_expand"} =>
        (pc = "run_nightly" <=> ProberTrueAndUnguarded)

\* prober true, guard set: no re-exec
C6_Witness ==
    /\ pc = "cargo_expand"
    /\ Level = 0
    /\ maybeNightly = Some(FALSE)
    /\ IsSome(env[NO_RUN_NIGHTLY])

(***************************************************************************)
(* C7.  As stated: whenever a stage of the chain has exited with a         *)
(* non-zero code, the program exits with that code.                        *)
(***************************************************************************)
C7_Original ==
    pc = "exited" =>
        \A p \in Pids :
            /\ Mine(p) /\ IsStage(procs[p])
            /\ procs[p].state = "reaped" /\ IsSome(procs[p].status)
            /\ Unwrap(procs[p].status) # 0
            => exitCode = procs[p].status

(***************************************************************************)
(* C7, amended.  Only the failure of the final stage is propagated: when   *)
(* the final stage has not ended with code 0 the program does not exit     *)
(* with 0, and a non-zero code of the final stage is the exit code.        *)
(***************************************************************************)
C7_FinalStageFailurePropagated ==
    pc = "exited" =>
        \A p \in FinalStages :
            procs[p].status # Some(0) =>
                /\ exitCode # Some(0)
                /\ IsSome(procs[p].status) => exitCode = procs[p].status

C7_Witness ==
    /\ pc = "exited"
    /\ IsSome(whichRustfmt)
    /\ \E p \in FinalStages :
        procs[p].status = Some(101) /\ exitCode = Some(101)

(***************************************************************************)
(* Vocabulary of the properties of wrap_args.                              *)
(***************************************************************************)
UserArgs == SubSeq(argv, 3, Len(argv))

\* the user tokens in front of the first `--`
BeforeSeparator(u) ==
    IF HasArg(u, "--")
    THEN SubSeq(u, 1, (CHOOSE i \in 1..Len(u) :
                          u[i] = "--" /\ \A j \in 1..(i - 1) : u[j] # "--") - 1)
    ELSE u

IsColorToken(t) == StartsWith(t, "--color")
NumColor(a) == Cardinality({i \in 1..Len(a) : IsColorToken(a[i])})

(***************************************************************************)
(* C8.  As stated: for `--test mytest` the synthesized list holds          *)
(* `--test`, `mytest`, `test` consecutively, in front of the `--`.         *)
(***************************************************************************)
C8_Original ==
    pc = "wrapped" /\ UserArgs = <<"--test", "mytest">> =>
        \E i \in 1..(Len(synth) - 3) :
            /\ synth[i] = "--test"
            /\ synth[i+1] = "mytest"
            /\ synth[i+2] = "test"
            /\ \E j \in (i + 3)..Len(synth) : synth[j] = "--"

(***************************************************************************)
(* C8, amended.  The default test target is injected only when the last    *)
(* token before the separator is the flag itself; a flag followed by a     *)
(* value gets none: for `--test mytest` the list is `rustc --test mytest`, *)
(* then the color flag and the `--`.                                       *)
(***************************************************************************)
C8_DefaultTestOnlyAfterBareFlag ==
    pc = "wrapped" =>
        LET b == BeforeSeparator(UserArgs)
        IN  /\ HasArg(synth, "test") <=> (b # <<>> /\ Last(b) = "--test")
            /\ UserArgs = <<"--test", "mytest">> =>
                /\ SubSeq(synth, 1, 3) = <<"rustc", "--test", "mytest">>
                /\ synth[4] \in {"--color=always", "--color=never"}
                /\ synth[5] = "--"

C8_Witness == pc = "wrapped" /\ UserArgs = <<"--test", "mytest">>

(***************************************************************************)
(* C9.  As stated: with a token beginning with `--color` anywhere in the   *)
(* input, the output has no color token besides the user's.                *)
(***************************************************************************)
C9_Original ==
    pc = "wrapped" /\ NumColor(UserArgs) > 0 =>
        NumColor(synth) = NumColor(UserArgs)

(***************************************************************************)
(* C9, amended.  With a token beginning with `--color` among the user      *)
(* arguments in front of the first `--`, the output has no color token     *)
(* besides the user's.                                                     *)
(***************************************************************************)
C9_NoColorSynthesizedAfterUserColor ==
    pc = "wrapped" /\ NumColor(BeforeSeparator(UserArgs)) > 0 =>
        NumColor(synth) = NumColor(UserArgs)

\* the user's color token is followed by other tokens and a separator
C9_Witness ==
    /\ pc = "wrapped"
    /\ Len(UserArgs) = 3
    /\ IsColorToken(UserArgs[1])
    /\ UserArgs[2] = "mytest"
    /\ UserArgs[3] = "--"

(***************************************************************************)
(* Vocabulary of the properties of the highlighter.                        *)
(***************************************************************************)
PygmentizeProbes ==
    {p \in Pids : Mine(p) /\ procs[p].stdin = Null
                  /\ procs[p].prog = "pygmentize"}

HighlighterStages ==
    {p \in Pids : Mine(p) /\ procs[p].stdin.fd = "stdout"
                  /\ procs[p].args = <<"-l", "rust", "-O", "encoding=utf8">>}

NoHighlighter ==
    /\ PygmentizeProbes = {}
    /\ HighlighterStages = {}
    /\ IsNone(whichPygmentize)

UserAsksColorNever ==
    \/ HasArg(argv, "--color=never")
    \/ \E i \in 1..(Len(argv) - 1) : argv[i] = "--color" /\ argv[i+1] = "never"

(***************************************************************************)
(* C10.  As stated: when the color flag handed to the compiler invocation  *)
(* is `--color=never`, or standard output is no terminal, no highlighter   *)
(* probe is spawned and no highlighter stage is added.                     *)
(***************************************************************************)
C10_Original ==
    HasArg(synth, "--color=never") \/ ~stdoutTty => NoHighlighter

(***************************************************************************)
(* C10, amended.  When the user's own arguments ask for `--color=never`    *)
(* (one token, or the pair `--color never`), or standard output is no      *)
(* terminal, no highlighter probe is spawned and no highlighter stage is   *)
(* added.                                                                  *)
(***************************************************************************)
C10_NoHighlighterWithoutColor ==
    UserAsksColorNever \/ ~stdoutTty => NoHighlighter

\* a run on a terminal with `--color=never` that went through the formatter
C10_Witness ==
    /\ pc = "exited"
    /\ HasArg(argv, "--color=never")
    /\ stdoutTty
    /\ IsSome(whichRustfmt)
    /\ FinalStages # {}

(***************************************************************************)
(* Vocabulary of the properties of the temporary directory.                *)
(***************************************************************************)
EventIdx(ev, owner) ==
    {i \in 1..Len(log) : log[i].ev = ev /\ log[i].owner = owner}

\* the spawns, and the failed spawns, of the stages of the chain
StageSpawnIdx(owner) ==
    {i \in 1..Len(log) : /\ log[i].ev \in {"spawn", "spawn_err"}
                         /\ log[i].owner = owner
                         /\ log[i].at \in PipeSites \cup RunSites}

\* the invocations that have exited: the running one once it is at
\* "exited", and the re-exec children that have returned
Exited(owner) == owner > Level \/ (owner = Level /\ pc = "exited")

(***************************************************************************)
(* C11.  As stated: the temporary directory is created only when the      *)
(* formatter or the highlighter was probed present, at most once, before   *)
(* any stage of the chain is spawned, and it has been deleted when the     *)
(* invocation exits, however it exits.                                     *)
(***************************************************************************)
C11_TempDirLifetime ==
    /\ pc \in PipeSites \cup RunSites \cup {"drop_wait", "scope_exit"} =>
           (outdir = "created"
               <=> IsSome(whichRustfmt) \/ IsSome(whichPygmentize))
    /\ pc = "exited" => outdir # "created"
    /\ \A i \in 1..Len(log) :
        log[i].ev = "mkdir" =>
            LET o == log[i].owner
            IN  /\ o = Level =>
                       IsSome(whichRustfmt) \/ IsSome(whichPygmentize)
                /\ EventIdx("mkdir", o) = {i}
                /\ \A j \in StageSpawnIdx(o) : i < j
                /\ Exited(o) => \E j \in EventIdx("rmdir", o) : j > i

(***************************************************************************)
(* Vocabulary of the properties of the temporary file.                     *)
(***************************************************************************)
\* the processes told to write the temporary file (`-o <outfile>`), and the
\* ones told to read it (`cat <outfile>`)
Writers ==
    {p \in Pids : HasArg(procs[p].args, "-o")
                  /\ HasArg(procs[p].args, OutfilePath)}
Readers ==
    {p \in Pids : procs[p].prog = "cat" /\ procs[p].args = <<OutfilePath>>}

Running(p) == procs[p].state = "running"

(***************************************************************************)
(* C12.  The temporary file has one writer, the compiler invocation, and   *)
(* one reader, `cat <outfile>`; the reader is spawned only after the       *)
(* writer has been waited on, so the two are never running together; a run *)
(* that used the file and returned a code had exactly one of each.         *)
(***************************************************************************)
C12_OneWriterThenOneReader ==
    LET W == Writers
        R == Readers
    IN  /\ Cardinality(W) <= 1
        /\ Cardinality(R) <= 1
        /\ \A w \in W :
            Mine(w) => procs[w].prog = cargo_binary /\ procs[w].args = synth
        /\ \A r \in R :
            /\ W # {}
            /\ \A w \in W : \E j \in WaitIdx(w) : j < SpawnIdx(r)
            /\ \A w \in W : ~(Running(r) /\ Running(w))
        /\ pc = "exited" /\ outdir = "deleted" /\ IsSome(result)
                /\ Unwrap(result).ok
               => Cardinality(W) = 1 /\ Cardinality(R) = 1

\* the reader is running, fed into the formatter, after the writer ended
C12_Witness ==
    /\ pc = "pipe_rustfmt_cat"
    /\ \E r \in Readers, w \in Writers :
        Running(r) /\ procs[w].state = "reaped"

(***************************************************************************)
(* Vocabulary of the end-to-end scenarios.                                 *)
(***************************************************************************)
\* the processes of the chain of the running invocation: stages and filters
Chain ==
    {p \in Pids : Mine(p) /\ log[SpawnIdx(p)].at \in PipeSites \cup RunSites}

\* `cargo expand` with no user argument, run by this invocation itself,
\* neither tool present, standard error not a terminal, command built
BareRunWithoutTools ==
    /\ argv = Argv(<<>>)
    /\ pc \in {"pipe_rustfmt", "pipe_pygmentize", "run_final", "scope_exit",
               "main_exit", "exited"}
    /\ RunsDirectly(Unwrap(maybeNightly), env)
    /\ IsNone(whichRustfmt) /\ IsNone(whichPygmentize)
    /\ ~stderrTty

NoTempFileSingleStage ==
    /\ outdir = "none"
    /\ EventIdx("mkdir", Level) = {}
    /\ ~HasArg(synth, "-o")
    /\ Cardinality(Chain) <= 1
    /\ \A p \in Chain : /\ procs[p].prog = cargo_binary
                        /\ procs[p].args = synth
                        /\ procs[p].stdin = Inherit
                        /\ log[SpawnIdx(p)].at = "run_final"
    /\ pc = "exited" /\ exitCode = Some(0) => Cardinality(Chain) = 1

(***************************************************************************)
(* C13.  As stated: in that run the synthesized list ends with `--`,       *)
(* `-Zunstable-options`, `--pretty=expanded`, `--color=never`, no          *)
(* temporary file is created and the chain is a single stage.              *)
(***************************************************************************)
C13_Original ==
    BareRunWithoutTools =>
        /\ Len(synth) >= 4
        /\ SubSeq(synth, Len(synth) - 3, Len(synth))
               = <<"--", "-Zunstable-options", "--pretty=expanded",
                   "--color=never">>
        /\ NoTempFileSingleStage

(***************************************************************************)
(* C13, amended.  In that run the synthesized list is `rustc`,             *)
(* `--color=never`, `--`, `-Zunstable-options`, `--pretty=expanded`: the   *)
(* color flag stands in front of the separator and the list ends with the  *)
(* pretty-print request; no temporary file is created and the chain is a   *)
(* single stage.                                                           *)
(***************************************************************************)
C13_BareRunColorBeforeSeparator ==
    BareRunWithoutTools =>
        /\ synth = <<"rustc", "--color=never", "--", "-Zunstable-options",
                     "--pretty=expanded">>
        /\ NoTempFileSingleStage

C13_Witness ==
    /\ BareRunWithoutTools
    /\ pc = "exited"
    /\ exitCode = Some(0)
    /\ Cardinality(Chain) = 1

(***************************************************************************)
(* Vocabulary of the default-target properties of wrap_args.               *)
(***************************************************************************)
Count(a, t) == Cardinality({i \in 1..Len(a) : a[i] = t})

\* the position of the first `--` of a list that has one
FirstSeparator(a) ==
    CHOOSE i \in 1..Len(a) : a[i] = "--" /\ \A j \in 1..(i - 1) : a[j] # "--"

\* the synthesized list holds exactly one token `target`, directly after
\* the first n user tokens and in front of its first `--`
DefaultTargetAfter(n, flag, target) ==
    /\ Count(synth, target) = 1
    /\ Len(synth) >= n + 3
    /\ SubSeq(synth, 2, n + 1) = SubSeq(UserArgs, 1, n)
    /\ synth[n + 1] = flag
    /\ synth[n + 2] = target
    /\ FirstSeparator(synth) > n + 2

(***************************************************************************)
(* C14.  As stated: when the last user token is `--test` (`--example`),    *)
(* the list holds exactly one `test` (`example`), directly after the last  *)
(* user token and in front of the synthesized `--`.                        *)
(***************************************************************************)
C14_Original ==
    pc = "wrapped" /\ UserArgs # <<>> =>
        /\ Last(UserArgs) = "--test" =>
               DefaultTargetAfter(Len(UserArgs), "--test", "test")
        /\ Last(UserArgs) = "--example" =>
               DefaultTargetAfter(Len(UserArgs), "--example", "example")

(***************************************************************************)
(* C14, amended.  When the last user token in front of the first user      *)
(* `--` (the last user token, when there is no `--`) is `--test`           *)
(* (`--example`), the list holds exactly one `test` (`example`), directly  *)
(* after that token and in front of the first `--`; a flag that comes      *)
(* after a user `--` gets no default target.                               *)
(***************************************************************************)
C14_DefaultTargetBeforeSeparator ==
    pc = "wrapped" =>
        LET b == BeforeSeparator(UserArgs)
        IN  /\ b # <<>> /\ Last(b) = "--test" =>
                   DefaultTargetAfter(Len(b), "--test", "test")
            /\ b # <<>> /\ Last(b) = "--example" =>
                   DefaultTargetAfter(Len(b), "--example", "example")
            /\ ~(b # <<>> /\ Last(b) = "--test") => Count(synth, "test") = 0
            /\ ~(b # <<>> /\ Last(b) = "--example") =>
                   Count(synth, "example") = 0

\* the flag is the last of three user tokens, none of them a `--`
C14_Witness ==
    /\ pc = "wrapped"
    /\ Len(UserArgs) = 3
    /\ UserArgs[3] = "--example"
    /\ ~HasArg(UserArgs, "--")
    /\ synth[5] = "example"

(***************************************************************************)
(* Vocabulary of the properties of the Capability Prober.                  *)
(***************************************************************************)
\* the probe processes of the running invocation for a tool, and the
\* attempts to spawn one made at position `at`
ProbesOf(tool) ==
    {p \in Pids : Mine(p) /\ procs[p].stdin = Null /\ procs[p].prog = tool}
ProbeAttempts(at) ==
    {i \in EventIdx("spawn", Level) \cup EventIdx("spawn_err", Level) :
        log[i].at = at}

\* what the probe of `tool`, made at position `at`, must have answered
ProbeDecision(answer, tool, at) ==
    IF HasArg(argv, "--help")
    THEN answer = None /\ ProbeAttempts(at) = {}
    ELSE IF IsSome(env[ToUppercase(tool)])
    THEN /\ ProbeAttempts(at) = {}
         /\ answer = IF Unwrap(env[ToUppercase(tool)]) = "" THEN None
                     ELSE env[ToUppercase(tool)]
    ELSE /\ Cardinality(ProbeAttempts(at)) = 1
         /\ Cardinality(ProbesOf(tool)) <= 1
         /\ answer \in {None, Some(tool)}
         /\ IsSome(answer) <=>
                \E p \in ProbesOf(tool) :
                    procs[p].state = "reaped" /\ Success(procs[p].status)

(***************************************************************************)
(* C15.  A capability probe decides in this order: `--help` among the      *)
(* arguments gives absent and spawns nothing; else the variable named      *)
(* after the tool in upper case, when set, gives absent if empty and its   *)
(* value as the path otherwise, and spawns nothing; else the tool is       *)
(* present iff the spawned probe exits successfully.  A probe that cannot  *)
(* be spawned or waited on gives absent, and the run goes on.              *)
(***************************************************************************)
C15_ProbeDecisionOrder ==
    /\ pc = "which_pygmentize" =>
           /\ ProbeDecision(whichRustfmt, "rustfmt", "cargo_expand")
           /\ result = None /\ exitCode = None
    /\ pc = "outdir" =>
           /\ ProbeDecision(whichRustfmt, "rustfmt", "cargo_expand")
           /\ ~color_never(argv) /\ stdoutTty =>
                  ProbeDecision(whichPygmentize, "pygmentize",
                                "which_pygmentize")
           /\ result = None /\ exitCode = None

\* `--help` and an override together: the help flag decides
C15_Witness ==
    /\ pc = "outdir"
    /\ HasArg(argv, "--help")
    /\ env["RUSTFMT"] = Some("/opt/tool")
    /\ stdoutTty
    /\ whichRustfmt = None

(***************************************************************************)
(* Vocabulary of the properties of a failed spawn.                         *)
(***************************************************************************)
\* the lines on the error stream: the one main prints for an Err result,
\* and the ones Wait::drop prints for a wait that failed
MainLines(owner) == {i \in EventIdx("eprint", owner) : log[i].pid = 0}
WaitLines(owner) == {i \in EventIdx("eprint", owner) : log[i].pid # 0}

(***************************************************************************)
(* C16.  As stated: when a stage of the chain or a Diagnostic Filter       *)
(* fails to spawn, construction stops: the invocation spawns nothing after *)
(* the failure, main prints one line for the error, and the exit code is   *)
(* 1.  (The only other lines on the error stream report a wait that        *)
(* failed.)                                                                *)
(***************************************************************************)
C16_SpawnFailureStopsChain ==
    \A i \in 1..Len(log) :
        log[i].ev = "spawn_err" /\ log[i].at \in PipeSites \cup RunSites =>
            LET o == log[i].owner
                lines == MainLines(o)
            IN  /\ \A j \in EventIdx("spawn", o) \cup EventIdx("spawn_err", o) :
                       j <= i
                /\ \A j \in lines : j > i
                /\ Cardinality(lines) <= 1
                /\ \A j \in WaitLines(o) :
                       log[j - 1].ev = "wait_err" /\ log[j - 1].pid = log[j].pid
                /\ Exited(o) => Cardinality(lines) = 1
                /\ o = Level /\ pc = "exited" => exitCode = Some(1)

(***************************************************************************)
(* Vocabulary of the properties of the Diagnostic Filter.                  *)
(***************************************************************************)
\* the input lines that are blank or hold one of the four advisory texts
CargoNoise ==
    {BlankLine, FormFeedLine, NbspLine, OghamLine, WideBlankLine}
        \cup AdvisoryLines

NotCargoNoise(line) == line \notin CargoNoise

\* the input lines that are no text, and the lines of text that
\* `--filter-cargo` has to forward
NoText == {Latin1Line}
TextToForward(line) == line \notin CargoNoise \cup NoText

\* char::encode_utf8
encode_utf8(c) ==
    IF c < 128 THEN <<c>>
    ELSE IF c < 2048 THEN <<192 + (c \div 64), 128 + (c % 64)>>
    ELSE IF c < 65536
    THEN <<224 + (c \div 4096), 128 + ((c \div 64) % 64), 128 + (c % 64)>>
    ELSE <<240 + (c \div 262144), 128 + ((c \div 4096) % 64),
           128 + ((c \div 64) % 64), 128 + (c % 64)>>

\* characters that look like a blank and are none: U+0008, U+001C..U+001F,
\* U+007F, U+180E, U+200B..U+200D, U+2060, U+FEFF
NotWhitespace == {8, 28, 29, 30, 31, 127, 6158, 8203, 8204, 8205, 8288, 65279}

\* the lines in front of the first one that is not UTF-8
RECURSIVE TextPrefix(_)
TextPrefix(lines) ==
    IF lines = <<>> \/ IsNone(from_utf8(Head(lines))) THEN <<>>
    ELSE <<Head(lines)>> \o TextPrefix(Tail(lines))

\* the running invocation went into filter mode
FilterRan ==
    /\ FilterMode
    /\ pc = "exited"
    /\ RunsDirectly(Unwrap(maybeNightly), env)

(***************************************************************************)
(* C17.  As stated: in filter mode the process reads its input to the end, *)
(* writes to its error stream exactly the lines the predicate does not     *)
(* ignore, unchanged and in input order, and exits with 0.                 *)
(* `--filter-rustfmt` ignores every line; `--filter-cargo` ignores exactly *)
(* the blank lines and the lines holding one of the four advisory texts.   *)
(* A line that is no text is not held against the filter: the statement is *)
(* about the lines of text, wherever they stand in the input.              *)
(***************************************************************************)
C17_FilterForwardsTheRest ==
    FilterRan =>
        /\ exitCode = Some(0)
        /\ unread = <<>>
        /\ Last(argv) = "--filter-rustfmt" => stderrOut = <<>>
        /\ Last(argv) = "--filter-cargo" =>
               stderrOut = SelectSeq(stdin, TextToForward)
        /\ \A i \in 1..Len(stdin) :
               stdin[i] \notin NoText =>
                   /\ ignore_rustfmt_err(stdin[i])
                   /\ ignore_cargo_err(stdin[i]) <=> stdin[i] \in CargoNoise

\* trim takes every White_Space character for a blank, in front of the line
\* feed and behind a space, and no character of NotWhitespace
TrimStripsWhiteSpace ==
    /\ \A c \in Whitespace :
           /\ IsSome(from_utf8(encode_utf8(c)))
           /\ next_code_point(encode_utf8(c), 1).ch = c
           /\ ignore_cargo_err(encode_utf8(c) \o BlankLine)
           /\ ignore_cargo_err(as_bytes(" ") \o encode_utf8(c))
    /\ \A c \in NotWhitespace :
           /\ IsSome(from_utf8(encode_utf8(c)))
           /\ next_code_point(encode_utf8(c), 1).ch = c
           /\ ~ignore_cargo_err(encode_utf8(c) \o BlankLine)

\* What the filter does on every input: the statement of C17 with "up to
\* the first line that is not UTF-8" in the place of "to the end".  A blank
\* line is one of nothing but White_Space characters, whichever they are.
FilterForwardsWhatItReads ==
    FilterRan =>
        LET text == TextPrefix(stdin)
        IN  /\ exitCode = Some(0)
            /\ unread = SubSeq(stdin, Len(text) + 2, Len(stdin))
            /\ Last(argv) = "--filter-rustfmt" => stderrOut = <<>>
            /\ Last(argv) = "--filter-cargo" =>
                   stderrOut = SelectSeq(text, NotCargoNoise)
            /\ \A i \in 1..Len(text) :
                   /\ ignore_rustfmt_err(text[i])
                   /\ ignore_cargo_err(text[i]) <=> text[i] \in CargoNoise
            /\ TrimStripsWhiteSpace

\* two different lines were forwarded, in the order of the input
FilterKeptOrder ==
    /\ FilterRan
    /\ Last(argv) = "--filter-cargo"
    /\ stdin = <<AbortLine, ErrorLine>>
    /\ stderrOut = <<AbortLine, ErrorLine>>

\* a line that is not UTF-8 ended the loop: the error behind it was not read
FilterStoppedAtReadError ==
    /\ FilterRan
    /\ Last(argv) = "--filter-cargo"
    /\ stdin = <<Latin1Line, ErrorLine>>
    /\ unread = <<ErrorLine>>
    /\ stderrOut = <<>>
    /\ exitCode = Some(0)

(***************************************************************************)
(* C18.  As stated: when the temporary directory is removed, every         *)
(* process that was spawned to write or to read the temporary file has     *)
(* been waited on.                                                         *)
(***************************************************************************)
C18_DirRemovedAfterFileUsers ==
    \A i \in 1..Len(log) :
        log[i].ev = "rmdir" =>
            \A p \in Writers \cup Readers :
                procs[p].owner = log[i].owner /\ SpawnIdx(p) < i =>
                    \E j \in WaitIdx(p) : j < i

(***************************************************************************)
(* Vocabulary of the properties of a Diagnostic Filter subprocess.         *)
(***************************************************************************)
Sentinels == {"--filter-cargo", "--filter-rustfmt"}

\* the running invocation was started the way the orchestrator starts a
\* filter, and decides like its parent to run cargo_expand itself
RunsAsFilter ==
    /\ Last(argv) \in Sentinels
    /\ IsSome(maybeNightly)
    /\ RunsDirectly(Unwrap(maybeNightly), env)

IsVersionQuery(pr) ==
    pr.prog = cargo_binary /\ pr.args = <<"--version">> /\ pr.stdin = Null

(***************************************************************************)
(* C19.  The orchestrator starts a Diagnostic Filter as its own program    *)
(* with its own arguments and a sentinel as the last one.  An invocation   *)
(* started that way, which like its parent runs cargo_expand itself, never *)
(* re-execs, probes no tool, creates no temporary directory and spawns no  *)
(* stage and no filter: the toolchain version query is its only child.     *)
(***************************************************************************)
C19_FilterDoesNotRecurse ==
    /\ \A f \in Pids :
        Mine(f) /\ procs[f].stdin.fd = "stderr" =>
            /\ procs[f].prog = argv[1]
            /\ SubSeq(procs[f].args, 1, Len(argv) - 1) = Tail(argv)
            /\ Len(procs[f].args) = Len(argv)
            /\ Last(procs[f].args) \in Sentinels
    /\ RunsAsFilter =>
        /\ pc \in {"cargo_expand", "exited"}
        /\ \A p \in Pids : Mine(p) => IsVersionQuery(procs[p])
        /\ \A i \in 1..Len(log) :
               log[i].owner = Level => log[i].at = "main"
        /\ IsNone(whichRustfmt) /\ IsNone(whichPygmentize)
        /\ outdir = "none"
        /\ pc = "exited" => exitCode = Some(0)

\* the prober says "definitely not nightly" and the guard is set: the
\* filter has run and exited without a re-exec
C19_Witness ==
    /\ RunsAsFilter
    /\ Level = 0
    /\ pc = "exited"
    /\ maybeNightly = Some(FALSE)
    /\ Last(argv) = "--filter-rustfmt"
    /\ \E p \in Pids : IsVersionQuery(procs[p])

====
